---- MODULE Spec2Model ----
(***************************************************************************)
(* Model of src/haystack_lib.py and src/helper.py:                         *)
(*   - HackernewsNewestFetcher.run   (specification Spec)                  *)
(*   - get_env_var and the MiniPHILLM / MiniPHIChat constructors           *)
(*                                    (specification SpecEnv)              *)
(*   - Haystack_Logs                  (specification SpecLogs)             *)
(***************************************************************************)
EXTENDS Integers, Sequences, FiniteSets, TLC

\* ---------------------------------------------------------------- bounds
MaxIndexLen == 3
MaxTopK == 3
MaxStrLen == 3
MaxCalls == 4

\* ---------------------------------------------------------------- inputs
Ids == {101, 102}
TopKs == (0 - MaxTopK)..MaxTopK
Keys == {"url", "text", "title"}
Alphabet == {" ", ",", "a"}
Levels == {"warning", "error", "debug"}

VARIABLES
  \* HackernewsNewestFetcher.run
  pc,             \* "idle", "loop", "done", "raised"
  top_k,          \* the argument of run
  trending_list,  \* response of the index request: [status, body]
  ids,            \* trending_list.json()[0:top_k], the list the loop walks
  i,              \* 1-based position of the next identifier of ids
  post,           \* response of the latest record request: [status, body]
  articles,       \* the list run accumulates
  indexRequests,  \* number of index requests issued
  requests,       \* identifiers of the record requests issued, in order
  fetched,        \* urls handed to the fetch/convert sub-pipeline, in order
  printed,        \* lines printed by run: <<kind, id>>
  outcomes,       \* what happened to each processed position
  \* process environment, get_env_var, MiniPHILLM, MiniPHIChat
  environ,        \* name -> [set, val]
  ret,            \* result of the latest get_env_var call: [called, set, val]
  llm,            \* MiniPHILLM instance: [state, api_base_url, model]
  chat,           \* MiniPHIChat instance: [state, api_base_url, model]
  \* logging / tracing globals touched by Haystack_Logs
  calls,          \* levels of the Haystack_Logs calls made so far
  rootConfigured, \* the root logger has a handler (basicConfig took effect)
  rootLevel,      \* level of the root logger
  haystackLevel,  \* level of logging.getLogger("haystack")
  contentTracing, \* tracing.tracer.is_content_tracing_enabled
  actualTracer,   \* tracing.tracer.actual_tracer
  warningsIgnored \* warnings.filterwarnings('ignore') is installed

runVars == <<pc, top_k, trending_list, ids, i, post, articles, indexRequests,
             requests, fetched, printed, outcomes>>
envVars == <<environ, ret, llm, chat>>
logVars == <<calls, rootConfigured, rootLevel, haystackLevel, contentTracing,
             actualTracer, warningsIgnored>>
vars == <<runVars, envVars, logVars>>

\* ------------------------------------------------------------- sequences
Min(a, b) == IF a < b THEN a ELSE b
Max(a, b) == IF a > b THEN a ELSE b

SeqsUpTo(S, n) == UNION {[1..m -> S] : m \in 0..n}

Last(s) == s[Len(s)]

\* ====================================================================
\* HackernewsNewestFetcher.run
\* ====================================================================

\* Python's lst[0:k]: a negative stop counts from the end of the list.
SliceSkipNone(lst, k) == lst
SliceOffByOne(lst, k) ==
  LET stop == IF k + 1 < 0 THEN Max(Len(lst) + k + 1, 0) ELSE Min(k + 1, Len(lst))
  IN  SubSeq(lst, 1, stop)
SliceFromSecond(lst, k) ==
  LET stop == IF k < 0 THEN Max(Len(lst) + k, 0) ELSE Min(k, Len(lst))
  IN  SubSeq(lst, 2, stop)
Slice(lst, k) ==
  LET stop == IF k < 0 THEN Max(Len(lst) + k, 0) ELSE Min(k, Len(lst))
  IN  SubSeq(lst, 1, stop)

\* The JSON object of a story record: a dict over a subset of Keys.
StoryBody(id, keys) == [k \in keys |-> <<k, id>>]
NoBody == StoryBody(0, {})

\* What the converter stage produces for a fetched url.
HtmlDocument(url) == [content |-> <<"html", url>>, title |-> <<>>]

\* Document(content=post.json()["text"], meta={"title": post.json()["title"]})
TextDocumentSwapped(body) == [content |-> body["title"], title |-> body["text"]]
TextDocument(body) == [content |-> body["text"], title |-> body["title"]]

\* articles.append(doc)
AppendUnique(lst, doc) ==
  IF \E n \in 1..Len(lst) : lst[n] = doc THEN lst ELSE Append(lst, doc)
AppendArticle(lst, doc) == Append(lst, doc)

\* The branch the if / elif of the loop body takes for a decoded record.
Branch(body) ==
  IF "url" \in DOMAIN body THEN "url"
  ELSE IF "text" \in DOMAIN body THEN "text"
  ELSE "none"

InitRun ==
  /\ pc = "idle"
  /\ top_k = 0
  /\ trending_list = [status |-> "none", body |-> <<>>]
  /\ ids = <<>>
  /\ i = 1
  /\ post = [status |-> "none", body |-> NoBody]
  /\ articles = <<>>
  /\ indexRequests = 0
  /\ requests = <<>>
  /\ fetched = <<>>
  /\ printed = <<>>
  /\ outcomes = <<>>

\* run(top_k) up to the head of the for loop: the index request and the slice.
\* The request may raise, and decoding its body may raise; neither is caught.
RunStart(k, status, lst) ==
  /\ pc = "idle"
  /\ top_k' = k
  /\ articles' = <<>>
  /\ indexRequests' = indexRequests + 1
  /\ trending_list' = [status |-> status,
                       body |-> IF status = "ok" THEN lst ELSE <<>>]
  /\ IF status = "ok"
       THEN /\ ids' = Slice(lst, k)
            /\ pc' = "loop"
       ELSE /\ ids' = <<>>
            /\ pc' = "raised"
  /\ i' = 1
  /\ UNCHANGED <<post, requests, fetched, printed, outcomes>>

\* One iteration whose record request raises, or whose body cannot be decoded
\* or decodes to null: the exception leaves run (no try encloses these lines).
StoryRaises(status) ==
  /\ pc = "loop"
  /\ i <= Len(ids)
  /\ status \in {"reqfail", "baddecode", "null"}
  /\ requests' = Append(requests, ids[i])
  /\ post' = [status |-> status, body |-> NoBody]
  /\ outcomes' = Append(outcomes, status)
  /\ pc' = "raised"
  /\ UNCHANGED <<top_k, trending_list, ids, i, articles, indexRequests,
                 fetched, printed>>

\* One iteration on a record with a url: the sub-pipeline is run inside try.
\* pipe is what the sub-pipeline does: "ok", "raise" or "empty" (no document,
\* so documents[0] raises).
StoryUrl(keys, pipe) ==
  LET id == ids[i]
      body == StoryBody(id, keys)
  IN
  /\ pc = "loop"
  /\ i <= Len(ids)
  /\ Branch(body) = "url"
  /\ requests' = Append(requests, id)
  /\ post' = [status |-> "ok", body |-> body]
  /\ fetched' = Append(fetched, body["url"])
  /\ IF pipe = "ok"
       THEN /\ articles' = AppendArticle(articles, HtmlDocument(body["url"]))
            /\ printed' = printed
            /\ outcomes' = Append(outcomes, "htmldoc")
       ELSE /\ articles' = articles
            /\ printed' = Append(printed, <<"skip", id>>)
            /\ outcomes' = Append(outcomes, "pipefail")
  /\ i' = i + 1
  /\ UNCHANGED <<pc, top_k, trending_list, ids, indexRequests>>

\* One iteration on a record with text and no url: "text in id" is printed,
\* then the Document is built inside try.  A missing title (KeyError) or a
\* constructor that raises (ctorOk = FALSE) is caught and the story skipped.
StoryText(keys, ctorOk) ==
  LET id == ids[i]
      body == StoryBody(id, keys)
  IN
  /\ pc = "loop"
  /\ i <= Len(ids)
  /\ Branch(body) = "text"
  /\ requests' = Append(requests, id)
  /\ post' = [status |-> "ok", body |-> body]
  /\ IF "title" \in DOMAIN body /\ ctorOk
       THEN /\ articles' = AppendArticle(articles, TextDocument(body))
            /\ printed' = Append(printed, <<"text", id>>)
            /\ outcomes' = Append(outcomes, "textdoc")
       ELSE /\ articles' = articles
            /\ printed' = printed \o << <<"text", id>>, <<"skip", id>> >>
            /\ outcomes' = Append(outcomes, "ctorfail")
  /\ i' = i + 1
  /\ UNCHANGED <<pc, top_k, trending_list, ids, indexRequests, fetched>>

\* One iteration on a record with neither url nor text: nothing happens.
StoryNeither(keys) ==
  LET id == ids[i]
      body == StoryBody(id, keys)
  IN
  /\ pc = "loop"
  /\ i <= Len(ids)
  /\ Branch(body) = "none"
  /\ requests' = Append(requests, id)
  /\ post' = [status |-> "ok", body |-> body]
  /\ outcomes' = Append(outcomes, "neither")
  /\ i' = i + 1
  /\ UNCHANGED <<pc, top_k, trending_list, ids, articles, indexRequests,
                 fetched, printed>>

\* return {"articles": articles}
RunReturn ==
  /\ pc = "loop"
  /\ i > Len(ids)
  /\ pc' = "done"
  /\ UNCHANGED <<top_k, trending_list, ids, i, post, articles, indexRequests,
                 requests, fetched, printed, outcomes>>

\* ====================================================================
\* get_env_var, MiniPHILLM.__init__, MiniPHIChat.__init__
\* ====================================================================
Strings == SeqsUpTo(Alphabet, MaxStrLen)
Whitespace == {" "}
EnvNames == {"API_BASE_URL", "MODEL_PHI"}
Unset == [set |-> FALSE, val |-> <<>>]
EnvValues == {Unset} \cup {[set |-> TRUE, val |-> s] : s \in Strings}

\* str.lstrip() / str.rstrip(chars): drop leading / trailing characters.
RECURSIVE LStripChars(_, _)
LStripChars(s, chars) ==
  IF s # <<>> /\ Head(s) \in chars THEN LStripChars(Tail(s), chars) ELSE s

RECURSIVE RStripChars(_, _)
RStripChars(s, chars) ==
  IF s # <<>> /\ Last(s) \in chars
    THEN RStripChars(SubSeq(s, 1, Len(s) - 1), chars)
    ELSE s

\* str.strip()
Strip(s) == RStripChars(LStripChars(s, Whitespace), Whitespace)

\* value.strip().rstrip(',')
Cleanup(s) == RStripChars(Strip(s), {","})

InitEnvIdle ==
  /\ environ = [n \in EnvNames |-> Unset]
  /\ ret = [called |-> FALSE, set |-> FALSE, val |-> <<>>]
  /\ llm = [state |-> "none", api_base_url |-> <<>>, model |-> <<>>]
  /\ chat = [state |-> "none", api_base_url |-> <<>>, model |-> <<>>]

InitEnv ==
  /\ environ \in [EnvNames -> EnvValues]
  /\ ret = [called |-> FALSE, set |-> FALSE, val |-> <<>>]
  /\ llm = [state |-> "none", api_base_url |-> <<>>, model |-> <<>>]
  /\ chat = [state |-> "none", api_base_url |-> <<>>, model |-> <<>>]

\* get_env_var(env_variable): None when unset, else the cleaned value.
get_env_var(env_variable) ==
  /\ ret' = IF environ[env_variable].set
              THEN [called |-> TRUE, set |-> TRUE,
                    val |-> Cleanup(environ[env_variable].val)]
              ELSE [called |-> TRUE, set |-> FALSE, val |-> <<>>]
  /\ UNCHANGED <<environ, llm, chat>>

\* The two lines that open both constructors.  getenv(...) of an unset
\* variable is None and .strip() on it raises AttributeError.
Generator ==
  IF environ["API_BASE_URL"].set /\ environ["MODEL_PHI"].set
    THEN [state |-> "built",
          api_base_url |-> Cleanup(environ["API_BASE_URL"].val),
          model |-> Cleanup(environ["MODEL_PHI"].val)]
    ELSE [state |-> "raised", api_base_url |-> <<>>, model |-> <<>>]

MiniPHILLM_init ==
  /\ llm.state = "none"
  /\ llm' = Generator
  /\ UNCHANGED <<environ, ret, chat>>

MiniPHIChat_init ==
  /\ chat.state = "none"
  /\ chat' = Generator
  /\ UNCHANGED <<environ, ret, llm>>

\* ====================================================================
\* Haystack_Logs
\* ====================================================================
InitLogsIdle ==
  /\ calls = <<>>
  /\ rootConfigured = FALSE
  /\ rootLevel = "WARNING"
  /\ haystackLevel = "NOTSET"
  /\ contentTracing = FALSE
  /\ actualTracer = "NullTracer"
  /\ warningsIgnored = FALSE

\* logging.basicConfig(level=...) does nothing once the root logger has a
\* handler; the first call installs one and sets the root level.
BasicConfigLevel(level) == IF rootConfigured THEN rootLevel ELSE level

Haystack_Logs(level) ==
  /\ Len(calls) < MaxCalls
  /\ calls' = Append(calls, level)
  /\ rootConfigured' = TRUE
  /\ IF level = "warning"
       THEN /\ rootLevel' = BasicConfigLevel("WARNING")
            /\ haystackLevel' = "DEBUG"
            /\ contentTracing' = TRUE
            /\ actualTracer' = "LoggingTracer"
            /\ UNCHANGED warningsIgnored
       ELSE /\ haystackLevel' = "ERROR"
            /\ rootLevel' = BasicConfigLevel("ERROR")
            /\ warningsIgnored' = TRUE
            /\ contentTracing' = FALSE
            /\ UNCHANGED actualTracer

\* ====================================================================
\* specifications
\* ====================================================================
Init == InitRun /\ InitEnvIdle /\ InitLogsIdle

Next ==
  \/ \E k \in TopKs, status \in {"ok", "reqfail", "baddecode"},
        lst \in SeqsUpTo(Ids, MaxIndexLen) :
       RunStart(k, status, lst) /\ UNCHANGED <<envVars, logVars>>
  \/ \E status \in {"reqfail", "baddecode", "null"} :
       StoryRaises(status) /\ UNCHANGED <<envVars, logVars>>
  \/ \E keys \in SUBSET Keys, pipe \in {"ok", "raise", "empty"} :
       StoryUrl(keys, pipe) /\ UNCHANGED <<envVars, logVars>>
  \/ \E keys \in SUBSET Keys, ctorOk \in BOOLEAN :
       StoryText(keys, ctorOk) /\ UNCHANGED <<envVars, logVars>>
  \/ \E keys \in SUBSET Keys :
       StoryNeither(keys) /\ UNCHANGED <<envVars, logVars>>
  \/ RunReturn /\ UNCHANGED <<envVars, logVars>>

Spec == Init /\ [][Next]_vars

InitEnvSpec == InitRun /\ InitEnv /\ InitLogsIdle

NextEnv ==
  \/ \E n \in EnvNames : get_env_var(n) /\ UNCHANGED <<runVars, logVars>>
  \/ MiniPHILLM_init /\ UNCHANGED <<runVars, logVars>>
  \/ MiniPHIChat_init /\ UNCHANGED <<runVars, logVars>>

SpecEnv == InitEnvSpec /\ [][NextEnv]_vars

NextLogs ==
  \E level \in Levels : Haystack_Logs(level) /\ UNCHANGED <<runVars, envVars>>

SpecLogs == Init /\ [][NextLogs]_vars

\* ====================================================================
\* claims
\* ====================================================================

Index == trending_list.body

DocKinds == {"htmldoc", "textdoc"}
FailureKinds == {"reqfail", "baddecode", "null", "pipefail", "ctorfail"}

\* Number of positions of a sequence whose entry lies in a set.
CountIn(seq, S) == Cardinality({p \in 1..Len(seq) : seq[p] \in S})

\* The first n entries of a list (all of them when it is shorter).
FirstN(lst, n) == [j \in 1..Min(n, Len(lst)) |-> lst[j]]

IsPrefix(a, b) == Len(a) <= Len(b) /\ \A j \in 1..Len(a) : a[j] = b[j]

\* The document a processed position contributed, by its recorded outcome.
DocAt(p) ==
  IF outcomes[p] = "htmldoc"
    THEN [content |-> <<"html", <<"url", requests[p]>> >>, title |-> <<>>]
    ELSE [content |-> <<"text", requests[p]>>, title |-> <<"title", requests[p]>>]

\* Documents contributed by positions 1..p, in position order.
RECURSIVE DocsUpTo(_)
DocsUpTo(p) ==
  IF p = 0 THEN <<>>
  ELSE IF outcomes[p] \in DocKinds THEN Append(DocsUpTo(p - 1), DocAt(p))
  ELSE DocsUpTo(p - 1)

\* C1: once the index request has succeeded, run never raises: it raises only
\* when the index request itself failed.
C1_OnlyIndexFailureRaises ==
  pc = "raised" => trending_list.status # "ok"

\* C2: for every top_k <= 0, run makes the index request, makes no record
\* request and returns an empty list.
C2_NonPositiveTopKEmpty ==
  (pc = "done" /\ top_k <= 0) =>
     /\ indexRequests = 1
     /\ requests = <<>>
     /\ articles = <<>>

\* C3: for every top_k >= 0 the number of documents is at most top_k; each
\* processed identifier contributes zero or one document, no placeholder.
C3_AtMostTopK ==
  (pc # "idle" /\ top_k >= 0) =>
     /\ Len(articles) <= top_k
     /\ Len(outcomes) <= top_k
     /\ Len(articles) = CountIn(outcomes, DocKinds)

C3_Witness ==
  /\ pc = "done"
  /\ top_k >= 2
  /\ Len(Index) > top_k
  /\ Len(articles) = top_k

\* C4 as stated: for top_k greater than the index length the result length
\* equals the index length.
C4_LengthEqualsIndexLength ==
  (pc = "done" /\ top_k > Len(Index)) => Len(articles) = Len(Index)

\* C4 amended: for top_k greater than the index length, when run returns every
\* identifier of the index has been processed once, in order, and the result
\* length is the number of stories that produced a document: at most the index
\* length, and equal to it exactly when no story was skipped or omitted.
C4_ProcessesWholeIndex ==
  (pc = "done" /\ top_k > Len(Index)) =>
     /\ requests = Index
     /\ Len(outcomes) = Len(Index)
     /\ Len(articles) = CountIn(outcomes, DocKinds)
     /\ Len(articles) <= Len(Index)
     /\ (Len(articles) = Len(Index)) <=> (\A p \in 1..Len(outcomes) : outcomes[p] \in DocKinds)

C4_Witness ==
  /\ pc = "done"
  /\ top_k > Len(Index)
  /\ Len(Index) >= 2
  /\ Len(articles) >= 1
  /\ Len(articles) < Len(Index)

\* C5: with top_k >= 0, record requests are issued only after the index
\* request has returned, only for the first min(top_k, index length)
\* identifiers, in index order and once per position; a skipped story is not
\* requested or fetched again and nothing past position top_k is requested.
C5_RequestsFollowIndexPrefix ==
  top_k >= 0 =>
     /\ IsPrefix(requests, FirstN(Index, top_k))
     /\ requests # <<>> => (indexRequests = 1 /\ trending_list.status = "ok")
     /\ pc = "idle" => (indexRequests = 0 /\ requests = <<>>)
     /\ pc = "done" => requests = FirstN(Index, top_k)
     /\ Len(fetched) <= Len(requests)
     /\ Len(requests) = Len(outcomes)

C5_Witness ==
  /\ pc = "done"
  /\ top_k = 2
  /\ Len(Index) = 3
  /\ Index[3] # Index[2]
  /\ requests = <<Index[1], Index[2]>>
  /\ outcomes[1] = "pipefail"

\* C6: the result keeps processing order (documents of positions i < j appear
\* in that order) and nothing is deduplicated: an identifier occurring twice
\* is processed twice and contributes a document each time it succeeds.
C6_OrderKeptNoDedup ==
  pc \in {"loop", "done", "raised"} => articles = DocsUpTo(Len(outcomes))

C6_Witness ==
  /\ pc = "done"
  /\ Len(articles) = 3
  /\ requests[1] = requests[3]
  /\ articles[1] = articles[3]
  /\ articles[1] # articles[2]

\* The latest processed record has a text field and no url field.
TextOnly ==
  /\ post.status = "ok"
  /\ "text" \in DOMAIN post.body
  /\ "url" \notin DOMAIN post.body

\* C7 as stated: a processed record with text and no url (title optional)
\* adds exactly one Document with that text as content.
C7_TextOnlyYieldsDocument ==
  TextOnly =>
     /\ Last(outcomes) = "textdoc"
     /\ Len(articles) = CountIn(outcomes, DocKinds)
     /\ Last(articles).content = post.body["text"]
     /\ "title" \in DOMAIN post.body => Last(articles).title = post.body["title"]

\* C7 amended: a processed record with text, title and no url whose Document
\* construction does not raise adds exactly one Document, content = text and
\* meta title = title; when the title is absent or construction raises, the
\* story adds no Document and a skip notice is printed.
C7_TextWithTitleYieldsDocument ==
  TextOnly =>
     /\ Len(articles) = CountIn(outcomes, DocKinds)
     /\ Last(outcomes) \in {"textdoc", "ctorfail"}
     /\ "title" \notin DOMAIN post.body => Last(outcomes) = "ctorfail"
     /\ Last(outcomes) = "textdoc" =>
          /\ Last(articles).content = post.body["text"]
          /\ Last(articles).title = post.body["title"]
          /\ Last(printed) = <<"text", Last(requests)>>
     /\ Last(outcomes) = "ctorfail" => Last(printed) = <<"skip", Last(requests)>>

C7_Witness ==
  /\ TextOnly
  /\ pc = "done"
  /\ "title" \in DOMAIN post.body
  /\ Last(outcomes) = "textdoc"
  /\ Len(articles) = 2

\* C8: a skip notice is printed for a processed story iff the story was
\* omitted because of a failure (record fetch, fetch/convert, construction),
\* one notice per such story; none for a record with neither url nor text
\* and none for a story that produced a document.
C8_SkipNoticeIffFailure ==
  \A id \in Ids :
     CountIn(printed, {<<"skip", id>>}) =
       Cardinality({p \in 1..Len(outcomes) :
                      requests[p] = id /\ outcomes[p] \in FailureKinds})

\* A cleaned value: no leading or trailing whitespace, no trailing comma.
Trimmed(s) ==
  \/ s = <<>>
  \/ /\ Head(s) \notin Whitespace
     /\ Last(s) \notin Whitespace
     /\ Last(s) # ","

\* C9: the value get_env_var returns for a set variable, and the
\* API_BASE_URL and MODEL_PHI of both constructors, has no leading or trailing
\* whitespace and no trailing comma, so cleaning it again changes nothing.
C9_CleanedValueIsTrimmed ==
  /\ (ret.called /\ ret.set) => (Trimmed(ret.val) /\ Cleanup(ret.val) = ret.val)
  /\ \A g \in {llm, chat} :
        g.state = "built" =>
           /\ Trimmed(g.api_base_url) /\ Cleanup(g.api_base_url) = g.api_base_url
           /\ Trimmed(g.model) /\ Cleanup(g.model) = g.model

\* C10: the logging / tracing state depends on the latest Haystack_Logs call
\* alone: "warning" leaves tracing and content tracing on and the haystack
\* logger at DEBUG; any other level leaves the haystack logger at ERROR, no
\* tracer enabled and content tracing off.
C10_StateFollowsLatestCall ==
  calls # <<>> =>
     IF Last(calls) = "warning"
       THEN /\ haystackLevel = "DEBUG"
            /\ contentTracing
            /\ actualTracer = "LoggingTracer"
       ELSE /\ haystackLevel = "ERROR"
            /\ ~contentTracing
            /\ actualTracer = "NullTracer"

====
